---- MODULE Spec2Model ----
(***************************************************************************)
(* VisionVault: the ingestion orchestrator (processing/pipeline.py,        *)
(* ingest_video with its process-wide cancellation flag) and the retrieval *)
(* engine's adaptive cutoff (processing/pipeline.py, search._filter_hits,  *)
(* with retrieval/rerank.py).                                              *)
(*                                                                         *)
(* Spec       : concurrent ingest_video calls, request_cancel_ingest.      *)
(* SpecChunks : the data path of one ingest from the frame list to the     *)
(*              chunk list (frame descriptions, chunk alignment).          *)
(* SpecSearch : search over an ordered candidate pool (rerank + cutoff).   *)
(* SpecAlign  : processing/chunking.py, align_transcript_and_captions on   *)
(*              arbitrary segments and frame descriptions.                 *)
(* SpecPointId: vectorstore/qdrant_store.py, the point id that             *)
(*              QdrantStore.upsert gives one payload.                      *)
(* SpecBackend: the vector-store part of the ingest_video and search calls *)
(*              of one process: backend choice, QdrantStore construction.  *)
(* SpecFaiss  : embeddings/faiss_index.py, FaissStore instances adding to  *)
(*              and searching one index directory, with the search join of *)
(*              pipeline.py and the RAG search route.                      *)
(***************************************************************************)
EXTENDS Integers, Sequences, FiniteSets, TLC

VARIABLES
    cancelFlag,     \* _CANCEL_INGEST
    qdrant,         \* os.getenv("QDRANT_URL") is set (fixed for the process)
    pc,             \* per ingest_video call: the program point it is at
    args,           \* per call: source_type, frames on/off, enable_captions
    outcome,        \* per call: how it ended ("none" while running)
    trace,          \* per call: the checks and stages it has executed, in order
    failedAt,       \* per call: the stage that raised ("none" if none did)
    vstore,         \* per call: number of vector-store writes under its video_id
    ragIndex,       \* per call: the secondary (LlamaIndex) artifacts were persisted
    lastCall,       \* history: the latest of request_cancel_ingest / ingest_video entry
    preCancelled,   \* history, per call: request_cancel_ingest was the call right before its entry
    pendingReq,     \* history: a cancel request is awaiting its first stage-boundary check;
                    \*          the calls that were running when it was made
    \* ---- SpecChunks
    cpc, enable_captions, fps, max_frames, frame_files, transcript, captionCalls, chunks,
    \* ---- SpecSearch
    spc, pool, top_k, min_score, relative_min, dropoff_gap, min_return_hits,
    rerankOn, rerankModel, hits, out, result,
    \* ---- SpecAlign
    apc,            \* "in" before the call, "out" after it
    argSegments,    \* the transcript_segments argument
    argFrames,      \* the frame_descriptions argument
    aligned,        \* the returned chunk list
    \* ---- SpecFaiss: one index directory data/index/<video_id>
    disk,           \* the directory: exists, index.faiss, meta.jsonl, RAG artifacts
    store_index,    \* per FaissStore instance: self._index (None or the loaded vectors)
    fpc,            \* per instance: the point its current call is at
    fcall,          \* per instance: the current call's arguments and locals
    fresult,        \* per instance: what its last completed call returned
    ragResult,      \* status of the last RAG search request for this video_id
    nextVec,        \* vectors are numbered in the order their add calls begin
    hIngested,      \* history: an ingest has begun to write this directory
    hMismatch,      \* history: some add had unequal numbers of vectors and records
    hOverlap,       \* history: some add began while another add was running
    \* ---- SpecPointId
    ipc,            \* "in" before the loop body of upsert, "out" after it
    payload,        \* payloads[i]
    seq_i,          \* i
    pid,            \* the id of the point
    \* ---- SpecBackend
    qdrant_url,     \* os.getenv("QDRANT_URL") is set in this process
    serverUp,       \* the Qdrant server answers requests
    collection,     \* the server has the collection of the embedder's dimension
    bpc,            \* per call: the point it is at
    bkind,          \* per call: "ingest" or "search"
    bused,          \* per call: the backends it has sent operations to
    bout,           \* per call: "ok", or the error it raised
    hFailed         \* history, per call: a request of its to the server failed with an
                    \*          error that _ensure_collection does not swallow

ingestVars == <<cancelFlag, qdrant, pc, args, outcome, trace, failedAt, vstore,
                ragIndex, lastCall, preCancelled, pendingReq>>
chunkVars  == <<cpc, enable_captions, fps, max_frames, frame_files, transcript,
                captionCalls, chunks>>
searchVars == <<spc, pool, top_k, min_score, relative_min, dropoff_gap,
                min_return_hits, rerankOn, rerankModel, hits, out, result>>
alignVars  == <<apc, argSegments, argFrames, aligned>>
faissVars  == <<disk, store_index, fpc, fcall, fresult, ragResult, nextVec,
                hIngested, hMismatch, hOverlap>>
idVars     == <<ipc, payload, seq_i, pid>>
backendVars == <<qdrant_url, serverUp, collection, bpc, bkind, bused, bout, hFailed>>
unitVars   == <<alignVars, faissVars, idVars, backendVars>>
notAlignVars == <<ingestVars, chunkVars, searchVars, faissVars, idVars, backendVars>>
notFaissVars == <<ingestVars, chunkVars, searchVars, alignVars, idVars, backendVars>>
notIdVars    == <<ingestVars, chunkVars, searchVars, alignVars, faissVars, backendVars>>
notBackendVars == <<ingestVars, chunkVars, searchVars, alignVars, faissVars, idVars>>
vars == <<ingestVars, chunkVars, searchVars, unitVars>>

----------------------------------------------------------------------------
(* Bounds *)

NumIngests == 2     \* ingest_video calls of one behaviour (they may overlap)
MaxFrames == 2      \* frames the decoder yields; also the largest max_frames argument
MaxSegs == 2        \* transcript segments
MaxTime == 3        \* latest segment boundary, in half seconds
MaxPool == 3        \* candidates the vector store returns
MaxTopK == 2        \* largest top_k besides the default
MaxMinReturn == 2   \* largest MIN_RETURN_HITS
NumStores == 2      \* FaissStore instances on one index directory
MaxBatch == 2       \* vectors, and metadata records, of one add
MaxVecs == 3        \* vectors added to one index directory in all
NumCalls == 3       \* ingest_video and search calls of one process (they may overlap)

Ingests == 1..NumIngests

----------------------------------------------------------------------------
(* ingest_video: program points and stage structure                        *)

SourceTypes == {"youtube", "local", "other"}

\* The collaborator / store calls of ingest_video, in code order.
StageRank ==
    [download |-> 1, copy |-> 1, audio |-> 2, frames |-> 3, transcribe |-> 4,
     caption |-> 5, align |-> 6, embed |-> 7, connect |-> 8, upsert |-> 9,
     add |-> 9, index |-> 10]

Stages == DOMAIN StageRank

\* pipeline.py:105  "if fps > 0 and (max_frames is None or max_frames > 0)";
\* max_frames = -1 stands for None.
FramesEnabled(f, mf) == f > 0 /\ (mf = -1 \/ mf > 0)

\* The program point a call goes to when the stage `st` returns normally.
NextPoint(st, a) ==
    CASE st = "download"   -> "chk_audio"
      [] st = "copy"       -> "chk_audio"
      [] st = "audio"      -> IF a.framesOn THEN "chk_frames" ELSE "chk_transcribe"
      [] st = "frames"     -> "chk_transcribe"
      [] st = "transcribe" -> "chk_caption"
      [] st = "caption"    -> "align"
      [] st = "align"      -> "chk_embed"
      [] st = "embed"      -> IF qdrant THEN "connect" ELSE "add"
      [] st = "connect"    -> "chk_upsert"
      [] st = "upsert"     -> "chk_index"
      [] st = "add"        -> "chk_index"
      [] st = "index"      -> "done"

\* The program point a call goes to when the _check_cancel() at `p` returns.
AfterCheck(p, a) ==
    CASE p = "chk_download"   -> "download"
      [] p = "chk_audio"      -> "audio"
      [] p = "chk_frames"     -> "frames"
      [] p = "chk_transcribe" -> "transcribe"
      [] p = "chk_caption"    -> IF a.enable_captions THEN "caption" ELSE "align"
      [] p = "chk_embed"      -> "embed"
      [] p = "chk_upsert"     -> "upsert"
      [] p = "chk_index"      -> "index"

CheckPoints == {"chk_download", "chk_audio", "chk_frames", "chk_transcribe",
                "chk_caption", "chk_embed", "chk_upsert", "chk_index"}

\* Variant: no try block around the secondary index build.
InTryNone(p) == FALSE

\* The try/except of pipeline.py:158-163 encloses the check and the build of
\* the secondary index; nothing else in ingest_video is inside a try.
InTry(p) == p \in {"chk_index", "index"}

\* Variant: the check reads the flag and never raises.
CheckNeverRaises(flag) == FALSE

\* _check_cancel(): raises RuntimeError("Ingest cancelled") iff the flag is set.
CheckRaises(flag) == flag

\* Entry of ingest_video: the first program point for a source_type.
EntryPoint(srcType) ==
    CASE srcType = "youtube" -> "chk_download"
      [] srcType = "local"   -> "copy"
      [] OTHER               -> "done"

Outcomes == {"none", "ok", "cancelled", "failed", "notfound", "badsource"}

NoArgs == [source_type |-> "none", framesOn |-> FALSE, enable_captions |-> FALSE]

NoRequest == [on |-> FALSE, running |-> {}]

\* The ingest_video calls that have entered and not yet returned or raised.
Running == {i \in Ingests : pc[i] \notin {"idle", "done"}}

InitIngest ==
    /\ cancelFlag = FALSE
    /\ qdrant \in BOOLEAN
    /\ pc = [i \in Ingests |-> "idle"]
    /\ args = [i \in Ingests |-> NoArgs]
    /\ outcome = [i \in Ingests |-> "none"]
    /\ trace = [i \in Ingests |-> << >>]
    /\ failedAt = [i \in Ingests |-> "none"]
    /\ vstore = [i \in Ingests |-> 0]
    /\ ragIndex = [i \in Ingests |-> FALSE]
    /\ lastCall = "none"
    /\ preCancelled = [i \in Ingests |-> FALSE]
    /\ pendingReq = NoRequest

\* Variant: the assignment without the "global" declaration binds a local.
RequestCancelLocal ==
    /\ lastCall' = "cancel"
    /\ pendingReq' = [on |-> TRUE, running |-> Running]
    /\ UNCHANGED <<cancelFlag, qdrant, pc, args, outcome, trace, failedAt, vstore,
                   ragIndex, preCancelled, chunkVars, searchVars, unitVars>>

\* request_cancel_ingest (pipeline.py:26-28; the /ingest/cancel route calls it)
RequestCancel ==
    /\ cancelFlag' = TRUE
    /\ lastCall' = "cancel"
    /\ pendingReq' = [on |-> TRUE, running |-> Running]
    /\ UNCHANGED <<qdrant, pc, args, outcome, trace, failedAt, vstore, ragIndex,
                   preCancelled, chunkVars, searchVars, unitVars>>

\* ingest_video entry, pipeline.py:55-98: reset the flag, make the artifact
\* directories, write meta.json, dispatch on source_type (an unknown one
\* raises ValueError).  Calls are numbered in the order they enter.
Start(i) ==
    /\ pc[i] = "idle"
    /\ \A j \in Ingests : j < i => pc[j] # "idle"
    /\ \E srcType \in SourceTypes, f \in {0, 1}, mf \in {-1, 0, 1}, caps \in BOOLEAN :
         /\ args' = [args EXCEPT ![i] = [source_type |-> srcType,
                                         framesOn |-> FramesEnabled(f, mf),
                                         enable_captions |-> caps]]
         /\ pc' = [pc EXCEPT ![i] = EntryPoint(srcType)]
         /\ outcome' = [outcome EXCEPT ![i] =
                           IF EntryPoint(srcType) = "done" THEN "badsource" ELSE @]
    /\ cancelFlag' = FALSE
    /\ lastCall' = "start"
    /\ preCancelled' = [preCancelled EXCEPT ![i] = (lastCall = "cancel")]
    /\ UNCHANGED <<qdrant, trace, failedAt, vstore, ragIndex, pendingReq,
                   chunkVars, searchVars, unitVars>>

\* One _check_cancel() call of ingest_video (pipeline.py:90,100,106,112,116,
\* 141,150,159).  The RuntimeError propagates out of ingest_video unless the
\* check is the one inside the try block.
CheckCancel(i) ==
    /\ pc[i] \in CheckPoints
    /\ IF CheckRaises(cancelFlag)
       THEN /\ trace' = [trace EXCEPT ![i] = Append(@, "raise")]
            /\ pc' = [pc EXCEPT ![i] = "done"]
            /\ outcome' = [outcome EXCEPT ![i] =
                              IF InTry(pc[i]) THEN "ok" ELSE "cancelled"]
       ELSE /\ trace' = [trace EXCEPT ![i] = Append(@, "check")]
            /\ pc' = [pc EXCEPT ![i] = AfterCheck(pc[i], args[i])]
            /\ UNCHANGED outcome
    /\ pendingReq' = NoRequest
    /\ UNCHANGED <<cancelFlag, qdrant, args, failedAt, vstore, ragIndex, lastCall,
                   preCancelled, chunkVars, searchVars, unitVars>>

\* A stage call returns: control moves on; the call after the secondary index
\* build is the "return {video_id, chunks_indexed}" of pipeline.py:165.
Returns(i, st) ==
    /\ pc' = [pc EXCEPT ![i] = NextPoint(st, args[i])]
    /\ outcome' = [outcome EXCEPT ![i] =
                      IF NextPoint(st, args[i]) = "done" THEN "ok" ELSE @]
    /\ UNCHANGED failedAt

\* Variant: the exception of a stage is caught and the pipeline carries on.
RaisesContinue(i, st, kind) ==
    /\ pc' = [pc EXCEPT ![i] = NextPoint(st, args[i])]
    /\ outcome' = [outcome EXCEPT ![i] =
                      IF NextPoint(st, args[i]) = "done" THEN "ok" ELSE @]
    /\ failedAt' = [failedAt EXCEPT ![i] = st]

\* A stage call raises: the exception leaves ingest_video, except inside the
\* try block, where "except Exception: pass" falls through to the return.
Raises(i, st, kind) ==
    /\ pc' = [pc EXCEPT ![i] = "done"]
    /\ outcome' = [outcome EXCEPT ![i] = IF InTry(st) THEN "ok" ELSE kind]
    /\ failedAt' = [failedAt EXCEPT ![i] = st]

\* A collaborator call that writes neither the vector store nor the secondary index.
Collaborator(i, st) ==
    /\ pc[i] = st
    /\ trace' = [trace EXCEPT ![i] = Append(@, st)]
    /\ \/ Returns(i, st)
       \/ Raises(i, st, "failed")
    /\ UNCHANGED <<cancelFlag, qdrant, args, vstore, ragIndex, lastCall,
                   preCancelled, pendingReq, chunkVars, searchVars, unitVars>>

\* pipeline.py:91  download_youtube(source, video_path)
Download(i) == Collaborator(i, "download")

\* pipeline.py:93-96  local source: existence test, then byte copy
CopyLocal(i) ==
    /\ pc[i] = "copy"
    /\ trace' = [trace EXCEPT ![i] = Append(@, "copy")]
    /\ \/ Returns(i, "copy")
       \/ Raises(i, "copy", "notfound")
       \/ Raises(i, "copy", "failed")
    /\ UNCHANGED <<cancelFlag, qdrant, args, vstore, ragIndex, lastCall,
                   preCancelled, pendingReq, chunkVars, searchVars, unitVars>>

\* pipeline.py:101  extract_audio
ExtractAudio(i) == Collaborator(i, "audio")

\* pipeline.py:107-110  extract_frames
ExtractFrames(i) == Collaborator(i, "frames")

\* pipeline.py:113-114  transcribe_audio, transcript.json
Transcribe(i) == Collaborator(i, "transcribe")

\* pipeline.py:117  caption_frames(frame_files), only if enable_captions
CaptionFrames(i) == Collaborator(i, "caption")

\* pipeline.py:118-139  frame descriptions, align_transcript_and_captions,
\* chunks.json, Embedder() construction
Align(i) == Collaborator(i, "align")

\* pipeline.py:140-142  embedder.encode(texts)
Embed(i) == Collaborator(i, "embed")

\* pipeline.py:149  QdrantStore(dim=...): client construction, _ensure_collection
QdrantConnect(i) == Collaborator(i, "connect")

\* A vector-store write: pipeline.py:151 qstore.upsert / pipeline.py:153-154 store.add
StoreWrite(i, st) ==
    /\ pc[i] = st
    /\ trace' = [trace EXCEPT ![i] = Append(@, st)]
    /\ \/ Returns(i, st) /\ vstore' = [vstore EXCEPT ![i] = @ + 1]
       \/ Raises(i, st, "failed") /\ UNCHANGED vstore
    /\ UNCHANGED <<cancelFlag, qdrant, args, ragIndex, lastCall, preCancelled,
                   pendingReq, chunkVars, searchVars, unitVars>>

QdrantUpsert(i) == StoreWrite(i, "upsert")

FaissAdd(i) == StoreWrite(i, "add")

\* pipeline.py:160  build_index_from_chunks: persists the secondary index
\* artifacts next to the vector index; it does not write index.faiss/meta.jsonl.
BuildIndex(i) ==
    /\ pc[i] = "index"
    /\ trace' = [trace EXCEPT ![i] = Append(@, "index")]
    /\ \/ Returns(i, "index") /\ ragIndex' = [ragIndex EXCEPT ![i] = TRUE]
       \/ Raises(i, "index", "failed") /\ UNCHANGED ragIndex
    /\ UNCHANGED <<cancelFlag, qdrant, args, vstore, lastCall, preCancelled,
                   pendingReq, chunkVars, searchVars, unitVars>>

IngestStep(i) ==
    \/ Start(i)
    \/ CheckCancel(i)
    \/ Download(i)
    \/ CopyLocal(i)
    \/ ExtractAudio(i)
    \/ ExtractFrames(i)
    \/ Transcribe(i)
    \/ CaptionFrames(i)
    \/ Align(i)
    \/ Embed(i)
    \/ QdrantConnect(i)
    \/ QdrantUpsert(i)
    \/ FaissAdd(i)
    \/ BuildIndex(i)

----------------------------------------------------------------------------
(* Strings are sequences of one-character strings.                         *)

Max(a, b) == IF a >= b THEN a ELSE b
Min(a, b) == IF a <= b THEN a ELSE b
Abs(a) == IF a >= 0 THEN a ELSE -a

\* Python s[:n] for any integer n (a negative n counts from the end).
PyPrefix(s, n) ==
    IF n >= 0 THEN SubSeq(s, 1, Min(n, Len(s)))
              ELSE SubSeq(s, 1, Max(Len(s) + n, 0))

RECURSIVE LStrip(_)
LStrip(s) == IF s # << >> /\ Head(s) = " " THEN LStrip(Tail(s)) ELSE s

RECURSIVE RStrip(_)
RStrip(s) ==
    IF s # << >> /\ s[Len(s)] = " " THEN RStrip(SubSeq(s, 1, Len(s) - 1)) ELSE s

\* str.strip(), for the one whitespace character of the model's alphabet
Strip(s) == LStrip(RStrip(s))

\* sep.join(parts)
RECURSIVE Join(_, _)
Join(sep, parts) ==
    IF parts = << >> THEN << >>
    ELSE IF Len(parts) = 1 THEN parts[1]
    ELSE parts[1] \o sep \o Join(sep, Tail(parts))

\* chunking.py:39  the separator " | "
CaptionSep == <<" ", "|", " ">>

----------------------------------------------------------------------------
(* Frame descriptions and chunk alignment.  Times are in half seconds, so  *)
(* that the timestamps of fps 1 and fps 2 are exact.                       *)

\* extract_frames.py:52-54  max(0.0, (frame_number - 1) / fps)
frame_number_to_timestamp_seconds(n, f) == Max(0, ((n - 1) * 2) \div f)

\* pipeline.py:118-122  one description per kept frame; cap_map.get(name, "")
FrameDescriptions(files, f, cap_map) ==
    [k \in 1..Len(files) |->
        [frame_file |-> files[k],
         timestamp  |-> frame_number_to_timestamp_seconds(files[k], f),
         caption    |-> IF files[k] \in DOMAIN cap_map THEN cap_map[files[k]]
                                                        ELSE << >>]]

\* chunking.py:36  abs(x["timestamp"] - ((s + e) / 2.0)), doubled
MidDistance(fd, seg) == Abs(2 * fd.timestamp - (seg.start + seg.end))

\* sorted(frame_descriptions, key=...): a stable sort, by insertion
RECURSIVE InsertByDistance(_, _, _)
InsertByDistance(fd, sorted, seg) ==
    IF sorted = << >> THEN <<fd>>
    ELSE IF MidDistance(fd, seg) < MidDistance(Head(sorted), seg)
         THEN <<fd>> \o sorted
         ELSE <<Head(sorted)>> \o InsertByDistance(fd, Tail(sorted), seg)

RECURSIVE SortedByDistance(_, _)
SortedByDistance(fds, seg) ==
    IF fds = << >> THEN << >>
    ELSE InsertByDistance(fds[Len(fds)],
                          SortedByDistance(SubSeq(fds, 1, Len(fds) - 1), seg), seg)

\* the frames of one segment, a tie for the nearest frame going to the later one
OverlapsLaterTie(seg, fds) ==
    LET inside(fd) == fd.timestamp >= seg.start /\ fd.timestamp <= seg.end
        within == SelectSeq(fds, inside)
        sorted == SortedByDistance(fds, seg)
        tied(fd) == MidDistance(fd, seg) = MidDistance(sorted[1], seg)
        nearest == SelectSeq(sorted, tied)
    IN  IF within # << >> THEN within
        ELSE IF fds = << >> THEN << >>
        ELSE <<nearest[Len(nearest)]>>

\* chunking.py:30-37  the frames of one segment
Overlaps(seg, fds) ==
    LET inside(fd) == fd.timestamp >= seg.start /\ fd.timestamp <= seg.end
        within == SelectSeq(fds, inside)
    IN  IF within # << >> THEN within
        ELSE PyPrefix(SortedByDistance(fds, seg), 1)

\* the chunk of one segment with the segment text taken as it is
ChunkOfUntrimmed(seg, fds) ==
    LET overlaps == Overlaps(seg, fds)
    IN  [start      |-> seg.start,
         end        |-> seg.end,
         transcript |-> seg.text,
         caption    |-> Join(CaptionSep, [k \in 1..Len(overlaps) |-> overlaps[k].caption]),
         frame_file |-> IF overlaps # << >> THEN overlaps[1].frame_file ELSE 0]

\* chunking.py:39-51  the chunk of one segment; frame_file 0 stands for ""
ChunkOf(seg, fds) ==
    LET overlaps == Overlaps(seg, fds)
    IN  [start      |-> seg.start,
         end        |-> seg.end,
         transcript |-> Strip(seg.text),
         caption    |-> Join(CaptionSep, [k \in 1..Len(overlaps) |-> overlaps[k].caption]),
         frame_file |-> IF overlaps # << >> THEN overlaps[1].frame_file ELSE 0]

\* chunking.py:21-53
align_transcript_and_captions(transcript_segments, frame_descriptions) ==
    [k \in 1..Len(transcript_segments) |->
        ChunkOf(transcript_segments[k], frame_descriptions)]

\* chunking.py:16-18  Chunk.text
ChunkText(c) == Strip(c.transcript \o <<" ">> \o c.caption)

----------------------------------------------------------------------------
(* SpecChunks: ingest_video from the frame list to the chunk list           *)

FpsValues == {0, 1, 2}
SegmentTexts == {<< >>, <<"x">>}
CaptionTexts == {<< >>, <<"a">>}

Segments ==
    {seg \in [start : 0..MaxTime, end : 0..MaxTime, text : SegmentTexts] :
        seg.start <= seg.end}

\* transcribe_audio yields the segments in time order
Transcripts ==
    UNION {{t \in [1..n -> Segments] :
               \A k \in 1..(n - 1) : t[k].end <= t[k + 1].start} : n \in 0..MaxSegs}

InitChunks ==
    /\ cpc = "frames"
    /\ enable_captions \in BOOLEAN
    /\ fps \in FpsValues
    /\ max_frames \in -1..MaxFrames
    /\ frame_files = << >>
    /\ transcript = << >>
    /\ captionCalls = 0
    /\ chunks = << >>

\* pipeline.py:103-110  frame extraction (or none), sorted, cut to max_frames
FrameFiles ==
    /\ cpc = "frames"
    /\ IF FramesEnabled(fps, max_frames)
       THEN \E n \in 0..MaxFrames :
                frame_files' = IF max_frames # -1
                               THEN PyPrefix([k \in 1..n |-> k], max_frames)
                               ELSE [k \in 1..n |-> k]
       ELSE frame_files' = << >>
    /\ cpc' = "transcribe"
    /\ UNCHANGED <<enable_captions, fps, max_frames, transcript, captionCalls, chunks,
                   ingestVars, searchVars, unitVars>>

\* pipeline.py:113  transcript = transcribe_audio(audio_path)
TranscriptSegments ==
    /\ cpc = "transcribe"
    /\ transcript' \in Transcripts
    /\ cpc' = "caption"
    /\ UNCHANGED <<enable_captions, fps, max_frames, frame_files, captionCalls, chunks,
                   ingestVars, searchVars, unitVars>>

\* pipeline.py:117-124  cap_map (caption_frames is called only if captions are
\* enabled), frame descriptions, align_transcript_and_captions
BuildChunks ==
    /\ cpc = "caption"
    /\ \E cap_map \in IF enable_captions
                      THEN [{frame_files[k] : k \in 1..Len(frame_files)} -> CaptionTexts]
                      ELSE {<< >>} :
         chunks' = align_transcript_and_captions(
                       transcript, FrameDescriptions(frame_files, fps, cap_map))
    /\ captionCalls' = IF enable_captions THEN captionCalls + 1 ELSE captionCalls
    /\ cpc' = "done"
    /\ UNCHANGED <<enable_captions, fps, max_frames, frame_files, transcript,
                   ingestVars, searchVars, unitVars>>

----------------------------------------------------------------------------
(* search: rerank and adaptive cutoff.  Scores, MIN_HIT_SCORE and          *)
(* DROPOFF_GAP are in hundredths; RELATIVE_MIN is in percent.              *)

DefaultTopK == 5            \* pipeline.py:168
DefaultMinScore == 0        \* pipeline.py:185
DefaultRelativeMin == 90    \* pipeline.py:186
DefaultDropoffGap == 8      \* pipeline.py:187
DefaultMinReturnHits == 1   \* pipeline.py:188

\* pipeline.py:190-195  the rerank score if the hit has one, else the raw score
effective_score(h) == IF h.reranked THEN h.rerank_score ELSE h.score

\* pipeline.py:205,223  hits_in[: min(k, max(min_return_hits, 0))]
Fallback(hits_in, k) == PyPrefix(hits_in, Min(k, Max(min_return_hits, 0)))

\* pipeline.py:207-220  the threshold walk from candidate idx on: the list `out`
RECURSIVE Walk(_, _, _, _, _)
Walk(hits_in, idx, acc, prev, k) ==
    IF idx > Len(hits_in) THEN acc
    ELSE LET h == hits_in[idx]
             s == effective_score(h)
             best == effective_score(hits_in[1])
         IN  IF s < min_score THEN Walk(hits_in, idx + 1, acc, prev, k)
             ELSE IF s * 100 < best * relative_min THEN acc
             ELSE IF (prev - s) >= dropoff_gap THEN acc
             ELSE IF Len(acc) + 1 >= k THEN Append(acc, h)
             ELSE Walk(hits_in, idx + 1, Append(acc, h), s, k)

\* The list `out` of _filter_hits at pipeline.py:222 (empty where the walk is not run).
WalkOut(hits_in, k) ==
    IF hits_in = << >> \/ effective_score(hits_in[1]) <= 0 THEN << >>
    ELSE Walk(hits_in, 1, << >>, effective_score(hits_in[1]), k)

\* Variant: the minimum-hits test after the walk is missing.
filter_hits_no_minimum(hits_in, k) ==
    IF hits_in = << >> THEN << >>
    ELSE IF effective_score(hits_in[1]) <= 0 THEN Fallback(hits_in, k)
    ELSE WalkOut(hits_in, k)

\* pipeline.py:197-224  _filter_hits
filter_hits(hits_in, k) ==
    IF hits_in = << >> THEN << >>
    ELSE IF effective_score(hits_in[1]) <= 0 THEN Fallback(hits_in, k)
    ELSE IF Len(WalkOut(hits_in, k)) < min_return_hits THEN Fallback(hits_in, k)
    ELSE WalkOut(hits_in, k)

\* rerank.py:75  reranked.sort(key=rerank_score, reverse=True): stable
RECURSIVE InsertByRerank(_, _)
InsertByRerank(h, sorted) ==
    IF sorted = << >> THEN <<h>>
    ELSE IF h.rerank_score > Head(sorted).rerank_score THEN <<h>> \o sorted
    ELSE <<Head(sorted)>> \o InsertByRerank(h, Tail(sorted))

RECURSIVE SortedByRerank(_)
SortedByRerank(hs) ==
    IF hs = << >> THEN << >>
    ELSE InsertByRerank(hs[Len(hs)], SortedByRerank(SubSeq(hs, 1, Len(hs) - 1)))

\* rerank.py:43-76  Reranker.rerank; `scores` is what model.predict returns
rerank(candidates, k, model, scores) ==
    IF candidates = << >> THEN << >>
    ELSE IF model = "unavailable" THEN PyPrefix(candidates, k)
    ELSE PyPrefix(
             SortedByRerank([j \in 1..Len(candidates) |->
                 [candidates[j] EXCEPT !.rerank_score = scores[j], !.reranked = TRUE]]),
             k)

ScoreValues == {-5, 0, 60, 85, 88, 95}
RerankScores == {-5, 95}
MinScoreValues == {DefaultMinScore, 90}
RelativeMinValues == {DefaultRelativeMin, 110}
DropoffGapValues == {DefaultDropoffGap, 40}

\* spec.md section 8, the literal case
LiteralPool == <<95, 94, 93, 60, 55>>

\* FaissStore.search / QdrantStore.search return the candidates by descending score
Pools ==
    {LiteralPool} \cup
    UNION {{p \in [1..n -> ScoreValues] :
               \A j \in 1..(n - 1) : p[j] >= p[j + 1]} : n \in 0..MaxPool}

InitSearch ==
    /\ spc = "retrieved"
    /\ pool \in Pools
    /\ top_k \in (0..MaxTopK) \cup {DefaultTopK}
    /\ min_score \in MinScoreValues
    /\ relative_min \in RelativeMinValues
    /\ dropoff_gap \in DropoffGapValues
    /\ min_return_hits \in -1..MaxMinReturn
    /\ rerankOn \in BOOLEAN
    /\ rerankModel \in {"loaded", "unavailable", "raises"}
    /\ hits = [j \in 1..Len(pool) |->
                 [id |-> j, score |-> pool[j], rerank_score |-> 0, reranked |-> FALSE]]
    /\ out = << >>
    /\ result = << >>

\* pipeline.py:245-253 / 271-279  the optional rerank; an exception leaves hits as is
RerankHits ==
    /\ spc = "retrieved"
    /\ IF rerankOn /\ rerankModel # "raises"
       THEN \E scores \in [1..Len(hits) -> RerankScores] :
                hits' = rerank(hits, top_k, rerankModel, scores)
       ELSE hits' = hits
    /\ spc' = "ranked"
    /\ UNCHANGED <<pool, top_k, min_score, relative_min, dropoff_gap, min_return_hits,
                   rerankOn, rerankModel, out, result, ingestVars, chunkVars, unitVars>>

\* pipeline.py:255 / 281  return _filter_hits(hits, top_k)
FilterHits ==
    /\ spc = "ranked"
    /\ out' = WalkOut(hits, top_k)
    /\ result' = filter_hits(hits, top_k)
    /\ spc' = "done"
    /\ UNCHANGED <<pool, top_k, min_score, relative_min, dropoff_gap, min_return_hits,
                   rerankOn, rerankModel, hits, ingestVars, chunkVars, unitVars>>

----------------------------------------------------------------------------
(* SpecAlign: align_transcript_and_captions as a function of its arguments. *)
(* Unlike the pipeline, a caller may pass untrimmed segment texts and frame *)
(* descriptions in any timestamp order.                                     *)

RawTexts == SegmentTexts \cup {<<" ", "x", " ">>}
AlignCaptions == CaptionTexts \cup {<<"b">>}

RawSegments ==
    {seg \in [start : 0..MaxTime, end : 0..MaxTime, text : RawTexts] :
        seg.start <= seg.end}

\* the k-th description carries the k-th frame file
Descriptions(n) ==
    {d \in [1..n -> [frame_file : 1..n, timestamp : 0..MaxTime,
                     caption : AlignCaptions]] :
        \A k \in 1..n : d[k].frame_file = k}

InitAlign ==
    /\ apc = "in"
    /\ argSegments \in UNION {[1..n -> RawSegments] : n \in 0..MaxSegs}
    /\ argFrames \in UNION {Descriptions(n) : n \in 0..MaxFrames}
    /\ aligned = << >>

\* chunking.py:21-53  one call
AlignCall ==
    /\ apc = "in"
    /\ aligned' = align_transcript_and_captions(argSegments, argFrames)
    /\ apc' = "out"
    /\ UNCHANGED <<argSegments, argFrames, notAlignVars>>

----------------------------------------------------------------------------
(* SpecFaiss: FaissStore instances over one index directory.  A vector is   *)
(* the number its add call gave it; a metadata record is the number of the  *)
(* vector it describes (0: of none); the score of a vector is its number.   *)

Stores == 1..NumStores

\* faiss_index.py:13-18  a directory nobody has written to
NoDirectory ==
    [dir |-> FALSE, index_faiss |-> FALSE, vectors |-> << >>,
     meta_jsonl |-> FALSE, lines |-> << >>, rag |-> FALSE]

\* faiss_index.py:18  self._index = None
NoIndex == [loaded |-> FALSE, vectors |-> << >>]

NoCall == [kind |-> "none", embeddings |-> << >>, metas |-> << >>, scored |-> << >>]
NoResult == [kind |-> "none", hits |-> << >>]

InitFaiss ==
    /\ disk = NoDirectory
    /\ store_index = [s \in Stores |-> NoIndex]
    /\ fpc = [s \in Stores |-> "idle"]
    /\ fcall = [s \in Stores |-> NoCall]
    /\ fresult = [s \in Stores |-> NoResult]
    /\ ragResult = "none"
    /\ nextVec = 1
    /\ hIngested = FALSE
    /\ hMismatch = FALSE
    /\ hOverlap = FALSE

\* faiss_index.py:20-21  mkdir(parents=True, exist_ok=True)
EnsureDir(d) == [d EXCEPT !.dir = TRUE]

\* faiss_index.py:23-29  _load: the directory is made; a store without an
\* index reads index.faiss if it exists, and else starts an empty one
LoadedIndex(idx, d) ==
    IF idx.loaded THEN idx
    ELSE IF d.index_faiss THEN [loaded |-> TRUE, vectors |-> d.vectors]
    ELSE [loaded |-> TRUE, vectors |-> << >>]

\* faiss_index.py:13-18  FaissStore(index_dir, dim): a fresh instance
NewStore(s) ==
    /\ fpc[s] = "idle"
    /\ store_index[s] # NoIndex
    /\ store_index' = [store_index EXCEPT ![s] = NoIndex]
    /\ UNCHANGED <<disk, fpc, fcall, fresult, ragResult, nextVec,
                   hIngested, hMismatch, hOverlap, notFaissVars>>

InAdd(s) == fpc[s] \in {"add_meta", "add_write"}

\* faiss_index.py:31-35  add begins: _load(), self._index.add(embeddings)
AddLoad(s) ==
    /\ fpc[s] = "idle"
    /\ \E n \in 1..MaxBatch, m \in 0..MaxBatch :
         /\ nextVec + n - 1 <= MaxVecs
         /\ LET embeddings == [j \in 1..n |-> nextVec + j - 1]
                metas == [j \in 1..m |-> IF j <= n THEN embeddings[j] ELSE 0]
                idx == LoadedIndex(store_index[s], disk)
            IN  /\ fcall' = [fcall EXCEPT ![s] =
                        [kind |-> "add", embeddings |-> embeddings,
                         metas |-> metas, scored |-> << >>]]
                /\ store_index' = [store_index EXCEPT ![s] =
                        [idx EXCEPT !.vectors = idx.vectors \o embeddings]]
         /\ nextVec' = nextVec + n
         /\ hMismatch' = (hMismatch \/ m # n)
    /\ disk' = EnsureDir(disk)
    /\ fpc' = [fpc EXCEPT ![s] = "add_meta"]
    /\ hIngested' = TRUE
    /\ hOverlap' = (hOverlap \/ \E t \in Stores \ {s} : InAdd(t))
    /\ fresult' = [fresult EXCEPT ![s] = NoResult]
    /\ UNCHANGED <<ragResult, notFaissVars>>

\* faiss_index.py:36-38  the records are appended to meta.jsonl
AddMeta(s) ==
    /\ fpc[s] = "add_meta"
    /\ disk' = [disk EXCEPT !.meta_jsonl = TRUE, !.lines = @ \o fcall[s].metas]
    /\ fpc' = [fpc EXCEPT ![s] = "add_write"]
    /\ UNCHANGED <<store_index, fcall, fresult, ragResult, nextVec,
                   hIngested, hMismatch, hOverlap, notFaissVars>>

\* faiss_index.py:39  faiss.write_index: index.faiss is rewritten in full
AddWriteIndex(s) ==
    /\ fpc[s] = "add_write"
    /\ disk' = [disk EXCEPT !.index_faiss = TRUE, !.vectors = store_index[s].vectors]
    /\ fpc' = [fpc EXCEPT ![s] = "idle"]
    /\ fcall' = [fcall EXCEPT ![s] = NoCall]
    /\ fresult' = [fresult EXCEPT ![s] = [kind |-> "added", hits |-> << >>]]
    /\ UNCHANGED <<store_index, ragResult, nextVec,
                   hIngested, hMismatch, hOverlap, notFaissVars>>

\* faiss_index.py:47  self._index.search(query_emb, top_k): the ordinals of
\* the index's vectors with their scores, padded with ordinal -1 because
\* retrieve_k (at least 50) exceeds the number of vectors
IndexSearch(vectors) ==
    [k \in 1..Len(vectors) |-> [score |-> vectors[k], idx |-> k - 1]]
        \o <<[score |-> -1, idx |-> -1]>>

\* pipeline.py:261-269  the hits: ordinals outside the metadata are skipped
RECURSIVE JoinHits(_, _)
JoinHits(scored, metas) ==
    IF scored = << >> THEN << >>
    ELSE LET h == Head(scored)
         IN  IF h.idx < 0 \/ h.idx >= Len(metas)
             THEN JoinHits(Tail(scored), metas)
             ELSE <<[score |-> h.score, meta |-> metas[h.idx + 1]]>>
                      \o JoinHits(Tail(scored), metas)

\* pipeline.py:258-259, faiss_index.py:41-47  search begins: _load(), then
\* the in-memory index is searched
SearchLoad(s) ==
    /\ fpc[s] = "idle"
    /\ LET idx == LoadedIndex(store_index[s], disk)
       IN  /\ store_index' = [store_index EXCEPT ![s] = idx]
           /\ fcall' = [fcall EXCEPT ![s] =
                   [kind |-> "search", embeddings |-> << >>, metas |-> << >>,
                    scored |-> IndexSearch(idx.vectors)]]
    /\ disk' = EnsureDir(disk)
    /\ fpc' = [fpc EXCEPT ![s] = "search_read"]
    /\ fresult' = [fresult EXCEPT ![s] = NoResult]
    /\ UNCHANGED <<ragResult, nextVec, hIngested, hMismatch, hOverlap,
                   notFaissVars>>

\* faiss_index.py:49-54, pipeline.py:261-281  meta.jsonl is read if it exists
\* and joined to the ordinals; search returns the hit list
SearchJoin(s) ==
    /\ fpc[s] = "search_read"
    /\ LET metas == IF disk.meta_jsonl THEN disk.lines ELSE << >>
       IN  fresult' = [fresult EXCEPT ![s] =
               [kind |-> "hits", hits |-> JoinHits(fcall[s].scored, metas)]]
    /\ fpc' = [fpc EXCEPT ![s] = "idle"]
    /\ fcall' = [fcall EXCEPT ![s] = NoCall]
    /\ UNCHANGED <<disk, store_index, ragResult, nextVec,
                   hIngested, hMismatch, hOverlap, notFaissVars>>

\* pipeline.py:158-160, llamaindex_rag.py:14-50  build_index_from_chunks after
\* the ingest's store.add: the directory is made, the artifacts persisted
BuildRagIndex ==
    /\ disk.index_faiss
    /\ ~disk.rag
    /\ disk' = [EnsureDir(disk) EXCEPT !.rag = TRUE]
    /\ UNCHANGED <<store_index, fpc, fcall, fresult, ragResult, nextVec,
                   hIngested, hMismatch, hOverlap, notFaissVars>>

\* routes_rag.py:19-35  POST /rag/search: 404 without the directory; else
\* answer_question, whose load_index raises without persisted artifacts
RagSearch ==
    /\ ragResult' = IF ~disk.dir THEN "404"
                    ELSE IF disk.rag THEN "200" ELSE "500"
    /\ ragResult' # ragResult
    /\ UNCHANGED <<disk, store_index, fpc, fcall, fresult, nextVec,
                   hIngested, hMismatch, hOverlap, notFaissVars>>

----------------------------------------------------------------------------
(* SpecPointId: point ids of QdrantStore.upsert.  A Python value is a       *)
(* record: None, an int, or a str (a sequence of characters).  The          *)
(* character "u" stands for the canonical text of one UUID and "U" for the  *)
(* same UUID written in capitals, which uuid.UUID also parses.              *)

PyNone == [t |-> "none", v |-> 0, s |-> << >>, key |-> << >>]
PyInt(n) == [t |-> "int", v |-> n, s |-> << >>, key |-> << >>]
PyStr(str) == [t |-> "str", v |-> 0, s |-> str, key |-> << >>]

\* uuid.uuid5(uuid.NAMESPACE_URL, key): one UUID per key
Uuid5(k) == [t |-> "uuid5", v |-> 0, s |-> << >>, key |-> k]

Digits == <<"0", "1", "2", "3", "4", "5", "6", "7", "8", "9">>
DigitValue(c) == (CHOOSE d \in 1..10 : Digits[d] = c) - 1

\* str.isdigit()
IsDigit(str) ==
    /\ str # << >>
    /\ \A k \in 1..Len(str) : \E d \in 1..10 : Digits[d] = str[k]

\* int(s) of a digit string
RECURSIVE ParseInt(_)
ParseInt(str) ==
    IF str = << >> THEN 0
    ELSE 10 * ParseInt(SubSeq(str, 1, Len(str) - 1)) + DigitValue(str[Len(str)])

\* uuid.UUID(s) succeeds
IsUuidText(str) == str \in {<<"u">>, <<"U">>}

\* str(uuid.UUID(s)): the canonical text
CanonicalUuid(str) == <<"u">>

\* Python truth value of None, an int, a str
Truthy(x) ==
    CASE x.t = "none" -> FALSE
      [] x.t = "int"  -> x.v # 0
      [] OTHER        -> x.s # << >>

\* a or b
PyOr(a, b) == IF Truthy(a) THEN a ELSE b

\* qdrant_store.py:123  payloads[i].get("point_id") or payloads[i].get("chunk_id")
SuppliedId(pl) == PyOr(pl.point_id, pl.chunk_id)

\* qdrant_store.py:124-127  f"{vid}:{start}:{end}:{i}"
FallbackKey(pl, i) == <<pl.video_id, pl.start, pl.end, i>>

\* qdrant_store.py:90-118  _as_qdrant_point_id
as_qdrant_point_id(raw, fallback_key) ==
    IF raw.t = "none" THEN Uuid5(fallback_key)
    ELSE IF raw.t = "int" THEN raw
    ELSE LET str == Strip(raw.s)
         IN  IF str = << >> THEN Uuid5(fallback_key)
             ELSE IF IsDigit(str) THEN PyInt(ParseInt(str))
             ELSE IF IsUuidText(str) THEN PyStr(CanonicalUuid(str))
             ELSE Uuid5(fallback_key)

RawIds ==
    {PyNone} \cup {PyInt(n) : n \in {-1, 0, 7}}
        \cup {PyStr(str) : str \in {<< >>, <<" ">>, <<"0">>, <<"7">>, <<"0", "7">>,
                                    <<" ", "7", " ">>, <<"u">>, <<"U">>,
                                    <<" ", "u">>, <<"x">>, <<"7", "x">>}}

ChunkIds == {PyNone, PyInt(7), PyStr(<<"x">>)}

Payloads ==
    [point_id : RawIds, chunk_id : ChunkIds, video_id : {"v1", "v2"},
     start : 0..1, end : 1..2]

InitPointId ==
    /\ ipc = "in"
    /\ payload \in Payloads
    /\ seq_i \in 0..1
    /\ pid = PyNone

\* qdrant_store.py:121-129  one turn of the loop of upsert
PointId ==
    /\ ipc = "in"
    /\ pid' = as_qdrant_point_id(SuppliedId(payload), FallbackKey(payload, seq_i))
    /\ ipc' = "out"
    /\ UNCHANGED <<payload, seq_i, notIdVars>>

----------------------------------------------------------------------------
(* SpecBackend: the vector-store part of the ingest_video and search calls  *)
(* of one process.  Nothing in the program writes the environment, so       *)
(* QDRANT_URL is what it was when the process started.                      *)

Calls == 1..NumCalls

\* pipeline.py:146, 234  if os.getenv("QDRANT_URL")
Backend(url_set) == IF url_set THEN "qdrant" ELSE "faiss"

InitBackend ==
    /\ qdrant_url \in BOOLEAN
    /\ serverUp \in BOOLEAN
    /\ collection \in BOOLEAN
    /\ bpc = [k \in Calls |-> "idle"]
    /\ bkind = [k \in Calls |-> "none"]
    /\ bused = [k \in Calls |-> {}]
    /\ bout = [k \in Calls |-> "none"]
    /\ hFailed = [k \in Calls |-> FALSE]

\* the server becomes unreachable, or reachable again
ServerFlip ==
    /\ qdrant_url
    /\ serverUp' = ~serverUp
    /\ UNCHANGED <<qdrant_url, collection, bpc, bkind, bused, bout, hFailed,
                   notBackendVars>>

\* pipeline.py:144-153, 233-237, 257-258  the call reaches its vector-store
\* part and reads QDRANT_URL
BeginStore(k) ==
    /\ bpc[k] = "idle"
    /\ \E kind \in {"ingest", "search"} : bkind' = [bkind EXCEPT ![k] = kind]
    /\ bpc' = [bpc EXCEPT ![k] =
                  IF Backend(qdrant_url) = "qdrant" THEN "q_list" ELSE "f_op"]
    /\ UNCHANGED <<qdrant_url, serverUp, collection, bused, bout, hFailed,
                   notBackendVars>>

\* a request to the server whose exception leaves the call falls back to FAISS
RaisedFallsBack(why) == [pc |-> "f_op", out |-> "none"]

\* an exception that leaves QdrantStore(...) / upsert / search leaves
\* ingest_video (pipeline.py:149-151) and search (pipeline.py:237-238) too
Raised(why) == [pc |-> "done", out |-> why]

\* qdrant_store.py:58-64  get_collections: return if the collection is listed;
\* a failure of the request is swallowed and the create is tried
QList(k) ==
    /\ bpc[k] = "q_list"
    /\ bused' = [bused EXCEPT ![k] = @ \cup {"qdrant"}]
    /\ bpc' = [bpc EXCEPT ![k] = IF serverUp /\ collection THEN "q_op" ELSE "q_create"]
    /\ UNCHANGED <<qdrant_url, serverUp, collection, bkind, bout, hFailed,
                   notBackendVars>>

\* qdrant_store.py:66-80  create_collection, outside any try: it raises if
\* the server is unreachable and if the collection exists already
\* (the server answers 409); create_payload_index is best effort
QCreate(k) ==
    /\ bpc[k] = "q_create"
    /\ IF serverUp /\ ~collection
       THEN /\ collection' = TRUE
            /\ bpc' = [bpc EXCEPT ![k] = "q_op"]
            /\ UNCHANGED <<bout, hFailed>>
       ELSE LET r == Raised(IF serverUp THEN "conflict" ELSE "unreachable")
            IN  /\ bpc' = [bpc EXCEPT ![k] = r.pc]
                /\ bout' = [bout EXCEPT ![k] = r.out]
                /\ hFailed' = [hFailed EXCEPT ![k] = TRUE]
                /\ UNCHANGED collection
    /\ UNCHANGED <<qdrant_url, serverUp, bkind, bused, notBackendVars>>

\* pipeline.py:151, 238  qstore.upsert / qstore.search (qdrant_store.py:131, 143)
QOp(k) ==
    /\ bpc[k] = "q_op"
    /\ IF serverUp
       THEN /\ bpc' = [bpc EXCEPT ![k] = "done"]
            /\ bout' = [bout EXCEPT ![k] = "ok"]
            /\ UNCHANGED hFailed
       ELSE LET r == Raised("unreachable")
            IN  /\ bpc' = [bpc EXCEPT ![k] = r.pc]
                /\ bout' = [bout EXCEPT ![k] = r.out]
                /\ hFailed' = [hFailed EXCEPT ![k] = TRUE]
    /\ UNCHANGED <<qdrant_url, serverUp, collection, bkind, bused, notBackendVars>>

\* pipeline.py:153-154, 258-259  FaissStore add / search
FOp(k) ==
    /\ bpc[k] = "f_op"
    /\ bused' = [bused EXCEPT ![k] = @ \cup {"faiss"}]
    /\ bpc' = [bpc EXCEPT ![k] = "done"]
    /\ bout' = [bout EXCEPT ![k] = "ok"]
    /\ UNCHANGED <<qdrant_url, serverUp, collection, bkind, hFailed, notBackendVars>>

----------------------------------------------------------------------------
(* Specifications *)

IdleIngest ==
    /\ cancelFlag = FALSE
    /\ qdrant = FALSE
    /\ pc = [i \in Ingests |-> "idle"]
    /\ args = [i \in Ingests |-> NoArgs]
    /\ outcome = [i \in Ingests |-> "none"]
    /\ trace = [i \in Ingests |-> << >>]
    /\ failedAt = [i \in Ingests |-> "none"]
    /\ vstore = [i \in Ingests |-> 0]
    /\ ragIndex = [i \in Ingests |-> FALSE]
    /\ lastCall = "none"
    /\ preCancelled = [i \in Ingests |-> FALSE]
    /\ pendingReq = NoRequest

IdleChunks ==
    /\ cpc = "idle"
    /\ enable_captions = FALSE
    /\ fps = 0
    /\ max_frames = -1
    /\ frame_files = << >>
    /\ transcript = << >>
    /\ captionCalls = 0
    /\ chunks = << >>

IdleSearch ==
    /\ spc = "idle"
    /\ pool = << >>
    /\ top_k = 0
    /\ min_score = 0
    /\ relative_min = 0
    /\ dropoff_gap = 0
    /\ min_return_hits = 0
    /\ rerankOn = FALSE
    /\ rerankModel = "unavailable"
    /\ hits = << >>
    /\ out = << >>
    /\ result = << >>

IdleAlign ==
    /\ apc = "idle"
    /\ argSegments = << >>
    /\ argFrames = << >>
    /\ aligned = << >>

IdleFaiss ==
    /\ disk = NoDirectory
    /\ store_index = [s \in Stores |-> NoIndex]
    /\ fpc = [s \in Stores |-> "off"]
    /\ fcall = [s \in Stores |-> NoCall]
    /\ fresult = [s \in Stores |-> NoResult]
    /\ ragResult = "none"
    /\ nextVec = 1
    /\ hIngested = FALSE
    /\ hMismatch = FALSE
    /\ hOverlap = FALSE

IdlePointId ==
    /\ ipc = "idle"
    /\ payload = [point_id |-> PyNone, chunk_id |-> PyNone, video_id |-> "v1",
                  start |-> 0, end |-> 1]
    /\ seq_i = 0
    /\ pid = PyNone

IdleBackend ==
    /\ qdrant_url = FALSE
    /\ serverUp = FALSE
    /\ collection = FALSE
    /\ bpc = [k \in Calls |-> "off"]
    /\ bkind = [k \in Calls |-> "none"]
    /\ bused = [k \in Calls |-> {}]
    /\ bout = [k \in Calls |-> "none"]
    /\ hFailed = [k \in Calls |-> FALSE]

IdleUnits == IdleAlign /\ IdleFaiss /\ IdlePointId /\ IdleBackend

Init == InitIngest /\ IdleChunks /\ IdleSearch /\ IdleUnits

Next ==
    \/ RequestCancel
    \/ \E i \in Ingests : IngestStep(i)

Spec == Init /\ [][Next]_vars

InitC == IdleIngest /\ InitChunks /\ IdleSearch /\ IdleUnits

NextC ==
    \/ FrameFiles
    \/ TranscriptSegments
    \/ BuildChunks

SpecChunks == InitC /\ [][NextC]_vars

InitS == IdleIngest /\ IdleChunks /\ InitSearch /\ IdleUnits

NextS ==
    \/ RerankHits
    \/ FilterHits

SpecSearch == InitS /\ [][NextS]_vars

InitA ==
    /\ IdleIngest /\ IdleChunks /\ IdleSearch
    /\ InitAlign /\ IdleFaiss /\ IdlePointId /\ IdleBackend

NextA == AlignCall

SpecAlign == InitA /\ [][NextA]_vars

InitF ==
    /\ IdleIngest /\ IdleChunks /\ IdleSearch
    /\ IdleAlign /\ InitFaiss /\ IdlePointId /\ IdleBackend

NextF ==
    \/ \E s \in Stores :
          \/ NewStore(s)
          \/ AddLoad(s)
          \/ AddMeta(s)
          \/ AddWriteIndex(s)
          \/ SearchLoad(s)
          \/ SearchJoin(s)
    \/ BuildRagIndex
    \/ RagSearch

SpecFaiss == InitF /\ [][NextF]_vars

InitP ==
    /\ IdleIngest /\ IdleChunks /\ IdleSearch
    /\ IdleAlign /\ IdleFaiss /\ InitPointId /\ IdleBackend

NextP == PointId

SpecPointId == InitP /\ [][NextP]_vars

InitB ==
    /\ IdleIngest /\ IdleChunks /\ IdleSearch
    /\ IdleAlign /\ IdleFaiss /\ IdlePointId /\ InitBackend

NextB ==
    \/ ServerFlip
    \/ \E k \in Calls :
          \/ BeginStore(k)
          \/ QList(k)
          \/ QCreate(k)
          \/ QOp(k)
          \/ FOp(k)

SpecBackend == InitB /\ [][NextB]_vars

----------------------------------------------------------------------------
(* Claims about ingest_video and the cancellation flag (Spec)               *)

\* The stages the orchestrator's contract names (QdrantStore construction
\* is not one of them).
ContractStages == Stages \ {"connect"}

\* The stage-boundary checks a call has executed, in order.
CheckEvents(i) == SelectSeq(trace[i], LAMBDA e : e \in {"check", "raise"})

\* The stages a call has executed, in order.
StageEvents(i) == SelectSeq(trace[i], LAMBDA e : e \in Stages)

\* The call i takes a _check_cancel() step.
ChecksNow(i) == pc[i] \in CheckPoints /\ trace'[i] # trace[i]

\* C1: every stage of ingest_video is immediately preceded by a check of the
\* cancellation flag (so a flag set when the stage is about to begin stops
\* the ingest before the stage).
C1_EveryStageChecked ==
    \A i \in Ingests : \A k \in 1..Len(trace[i]) :
        trace[i][k] \in ContractStages => k > 1 /\ trace[i][k - 1] = "check"

\* C2 as stated: a request_cancel_ingest made right before an ingest_video
\* call enters makes that call's first stage-boundary check abort it, with no
\* vector-store write.
C2_CancelBeforeStartAborts ==
    \A i \in Ingests :
        (preCancelled[i] /\ CheckEvents(i) # << >>) =>
            CheckEvents(i)[1] = "raise" /\ vstore[i] = 0

\* C2 amended: a request made after the call's entry (which resets the flag)
\* and before its first stage-boundary check, with no ingest_video entry in
\* between, makes that first check abort the call as Cancelled with no
\* vector-store write.
C2_CancelAfterEntryAborts ==
    [][\A i \in Ingests :
          (ChecksNow(i) /\ CheckEvents(i) = << >> /\ lastCall = "cancel") =>
              /\ pc'[i] = "done"
              /\ outcome'[i] = "cancelled"
              /\ vstore'[i] = 0]_vars

C2_Witness ==
    \E i \in Ingests :
        /\ ~preCancelled[i]
        /\ outcome[i] = "cancelled"
        /\ CheckEvents(i) = <<"raise">>
        /\ lastCall = "cancel"
        /\ vstore[i] = 0

\* C3: a call that observed the flag set at any stage-boundary check ends
\* Cancelled, an outcome that is neither the success result nor a failure.
C3_ObservedCancelEndsCancelled ==
    \A i \in Ingests :
        (\E k \in 1..Len(trace[i]) : trace[i][k] = "raise") =>
            pc[i] = "done" /\ outcome[i] = "cancelled"

\* C4 as stated: after a request, the next call to execute a stage-boundary
\* check (a call that was running when the request was made) is aborted as
\* Cancelled, whatever starts and checks interleave.
C4_NextCheckAborts ==
    [][\A i \in Ingests :
          (ChecksNow(i) /\ pendingReq.on /\ i \in pendingReq.running) =>
              outcome'[i] = "cancelled"]_vars

\* C4 amended: the next stage-boundary check after a request raises the
\* cancellation provided no ingest_video call has entered since the request;
\* the call then ends Cancelled, except at the check before the secondary
\* index build, whose exception is swallowed.
C4_NextCheckAbortsUnlessReset ==
    [][\A i \in Ingests :
          (ChecksNow(i) /\ pendingReq.on /\ lastCall = "cancel") =>
              /\ trace'[i] = Append(trace[i], "raise")
              /\ pc'[i] = "done"
              /\ pc[i] # "chk_index" => outcome'[i] = "cancelled"]_vars

C4_Witness ==
    \E i, j \in Ingests :
        /\ i # j
        /\ outcome[i] = "cancelled"
        /\ pc[j] \in CheckPoints
        /\ lastCall = "cancel"
        /\ ~pendingReq.on

\* C5: the stages of one call run one after the other in the fixed order; a
\* stage up to the vector-store write that fails is the last stage the call
\* runs, the call does not return the success result, and nothing is
\* written to the vector store.
C5_FixedOrderFailureIsFatal ==
    \A i \in Ingests :
        LET st == StageEvents(i)
        IN  /\ \A k \in 1..Len(st) : \A m \in 1..Len(st) :
                   k < m => StageRank[st[k]] < StageRank[st[m]]
            /\ (failedAt[i] \notin {"none", "index"}) =>
                   /\ pc[i] = "done"
                   /\ outcome[i] \in {"failed", "notfound"}
                   /\ st[Len(st)] = failedAt[i]
                   /\ vstore[i] = 0
                   /\ ~ragIndex[i]

C5_Witness ==
    \E i \in Ingests :
        /\ failedAt[i] \in {"upsert", "add"}
        /\ outcome[i] = "failed"
        /\ Len(StageEvents(i)) >= 7

\* The vector-store write of the call has completed without error.
WriteCompleted(i) ==
    /\ \E k \in 1..Len(trace[i]) : trace[i][k] \in {"upsert", "add"}
    /\ failedAt[i] \notin {"upsert", "add"}

\* C6: with every stage through the vector-store write completed and no
\* cancellation observed, the call returns the success result whether or not
\* the secondary index build raises; a failed build leaves the written
\* vector store as it was.
C6_SecondaryIndexBestEffort ==
    \A i \in Ingests :
        /\ (pc[i] = "done" /\ WriteCompleted(i)
               /\ \A k \in 1..Len(trace[i]) : trace[i][k] # "raise") =>
              outcome[i] = "ok" /\ vstore[i] = 1
        /\ failedAt[i] = "index" =>
              outcome[i] = "ok" /\ vstore[i] = 1 /\ ~ragIndex[i]

C6_Witness ==
    \E i \in Ingests :
        /\ pc[i] = "done"
        /\ failedAt[i] = "index"
        /\ outcome[i] = "ok"
        /\ vstore[i] = 1

----------------------------------------------------------------------------
(* Claims about the chunk data path (SpecChunks)                            *)

\* C7: with enable_captions = false the captioner is never called and every
\* chunk's caption is the empty string.
C7_CaptionsOffEmpty ==
    (cpc = "done" /\ ~enable_captions) =>
        /\ captionCalls = 0
        /\ \A k \in 1..Len(chunks) : chunks[k].caption = << >>

----------------------------------------------------------------------------
(* Claims about the adaptive cutoff (SpecSearch)                            *)

\* The three threshold conditions of the cutoff for the candidate at j,
\* every candidate before it having been accumulated.
Passes(hs, j) ==
    LET s == effective_score(hs[j])
        best == effective_score(hs[1])
        prev == IF j = 1 THEN best ELSE effective_score(hs[j - 1])
    IN  /\ s >= min_score
        /\ s * 100 >= best * relative_min
        /\ (prev - s) < dropoff_gap

\* The longest prefix of hs, of at most k candidates, all of which pass.
LongestPassingPrefix(hs, k) ==
    LET ok(n) == \A j \in 1..n : Passes(hs, j)
        n == CHOOSE n \in 0..Min(Max(k, 0), Len(hs)) :
                 /\ ok(n)
                 /\ \A m \in 0..Min(Max(k, 0), Len(hs)) : ok(m) => m <= n
    IN  SubSeq(hs, 1, n)

\* C8: for a first effective score > 0 the walk accumulates the longest
\* prefix, capped at top_k, whose candidates pass all three conditions; the
\* literal case with defaults yields the first three candidates.
C8_WalkIsLongestPrefix ==
    (spc = "done" /\ hits # << >> /\ effective_score(hits[1]) > 0) =>
        /\ out = LongestPassingPrefix(hits, top_k)
        /\ (/\ pool = LiteralPool
            /\ ~hits[1].reranked
            /\ top_k = DefaultTopK
            /\ min_score = DefaultMinScore
            /\ relative_min = DefaultRelativeMin
            /\ dropoff_gap = DefaultDropoffGap
            /\ min_return_hits = DefaultMinReturnHits) =>
               result = SubSeq(hits, 1, 3)

\* C9: when the first score is <= 0 or the walk accumulates fewer than
\* min_return_hits candidates, the result is the first
\* min(top_k, min_return_hits) candidates in their order; so a non-empty
\* candidate list with top_k >= 1 and min_return_hits >= 1 never yields an
\* empty result.
C9_MinimumHitsFallback ==
    (spc = "done" /\ hits # << >>) =>
        /\ (effective_score(hits[1]) <= 0 \/ Len(out) < min_return_hits) =>
               result = SubSeq(hits, 1, Min(Len(hits), Min(top_k, min_return_hits)))
        /\ (top_k >= 1 /\ min_return_hits >= 1) => result # << >>

C9_Witness ==
    /\ spc = "done"
    /\ Len(hits) >= 3
    /\ effective_score(hits[1]) > 0
    /\ Len(out) = 1
    /\ min_return_hits = 2
    /\ top_k >= 2
    /\ Len(result) = 2

\* C10: the hit list search returns has at most top_k entries.
C10_AtMostTopK == spc = "done" => Len(result) <= top_k

----------------------------------------------------------------------------
(* Claims about align_transcript_and_captions (SpecAlign)                   *)

Blanks(n) == [k \in 1..n |-> " "]

\* t is s without its leading and trailing blanks
IsTrimOf(t, s) ==
    /\ t = << >> \/ (t[1] # " " /\ t[Len(t)] # " ")
    /\ \E a, b \in 0..Len(s) : s = Blanks(a) \o t \o Blanks(b)

\* C11: align_transcript_and_captions returns one chunk per transcript
\* segment, in segment order; the k-th chunk has the k-th segment's start and
\* end, its transcript is the segment text without leading and trailing
\* blanks, and its text is the transcript, a blank and the caption, trimmed:
\* the transcript alone when the caption is empty, and the transcript, one
\* blank and the caption when neither is empty nor has a blank at its ends.
C11_OneChunkPerSegment ==
    apc = "out" =>
        /\ Len(aligned) = Len(argSegments)
        /\ \A k \in 1..Len(aligned) :
              LET c == aligned[k]
                  seg == argSegments[k]
              IN  /\ c.start = seg.start
                  /\ c.end = seg.end
                  /\ IsTrimOf(c.transcript, seg.text)
                  /\ IsTrimOf(ChunkText(c), c.transcript \o <<" ">> \o c.caption)
                  /\ c.caption = << >> => ChunkText(c) = c.transcript
                  /\ (/\ c.transcript # << >>
                      /\ c.caption # << >>
                      /\ IsTrimOf(c.caption, c.caption))
                     => ChunkText(c) = c.transcript \o <<" ">> \o c.caption

\* two segments, one of them with an untrimmed text and a caption
C11_Witness ==
    /\ apc = "out"
    /\ Len(aligned) = 2
    /\ argSegments[1] # argSegments[2]
    /\ \E k \in 1..2 : /\ argSegments[k].text = <<" ", "x", " ">>
                        /\ aligned[k].caption = <<"a">>
                        /\ ChunkText(aligned[k]) = <<"x", " ", "a">>

\* positions of the frame descriptions whose timestamp lies in [s, e]
InInterval(seg) ==
    {j \in 1..Len(argFrames) :
        seg.start <= argFrames[j].timestamp /\ argFrames[j].timestamp <= seg.end}

\* position of the description nearest (s + e) / 2, the earliest among equals
NearestPosition(seg) ==
    CHOOSE j \in 1..Len(argFrames) :
        \A i \in 1..Len(argFrames) :
            \/ MidDistance(argFrames[j], seg) < MidDistance(argFrames[i], seg)
            \/ /\ MidDistance(argFrames[j], seg) = MidDistance(argFrames[i], seg)
               /\ j <= i

SelectedPositions(seg) ==
    IF InInterval(seg) # {} THEN InInterval(seg)
    ELSE IF argFrames # << >> THEN {NearestPosition(seg)}
    ELSE {}

\* the elements of a set of positions, ascending
RECURSIVE Ascending(_)
Ascending(S) ==
    IF S = {} THEN << >>
    ELSE LET m == CHOOSE x \in S : \A y \in S : x <= y
         IN  <<m>> \o Ascending(S \ {m})

\* C12: for each segment [s, e] the selected frames are those with timestamp
\* in [s, e], in input order, if there is one, and otherwise the one frame
\* nearest (s + e) / 2, the earlier in the input among equally near ones; the
\* caption is the selected captions joined by " | " and the representative
\* frame is the first selected one.  With no frame descriptions the caption is
\* empty and there is no representative frame.
C12_SelectedFrames ==
    apc = "out" =>
        \A k \in 1..Len(argSegments) :
            LET sel == Ascending(SelectedPositions(argSegments[k]))
            IN  /\ k \in DOMAIN aligned
                /\ aligned[k].caption =
                       Join(CaptionSep, [j \in 1..Len(sel) |-> argFrames[sel[j]].caption])
                /\ aligned[k].frame_file =
                       IF sel = << >> THEN 0 ELSE argFrames[sel[1]].frame_file
                /\ argFrames = << >> =>
                       aligned[k].caption = << >> /\ aligned[k].frame_file = 0

\* a segment with no frame inside and two frames equally near its midpoint,
\* the earlier one in the input being the later one in time
C12_Witness ==
    /\ apc = "out"
    /\ Len(argFrames) = 2
    /\ \E k \in 1..Len(argSegments) :
          /\ InInterval(argSegments[k]) = {}
          /\ MidDistance(argFrames[1], argSegments[k])
                 = MidDistance(argFrames[2], argSegments[k])
          /\ argFrames[1].timestamp > argFrames[2].timestamp
          /\ argFrames[1].caption # argFrames[2].caption
          /\ aligned[k].caption = argFrames[1].caption
          /\ aligned[k].frame_file = 1

----------------------------------------------------------------------------
(* Claims about the local backend (SpecFaiss)                               *)

\* the call instance s is in is an add whose record count is not its vector count
MismatchedAdd(s) ==
    /\ fcall[s].kind = "add"
    /\ Len(fcall[s].metas) # Len(fcall[s].embeddings)

\* C13: an add whose metadata list is not as long as its vector list is
\* rejected with an error and leaves the store unchanged: no step of such a
\* call changes index.faiss or meta.jsonl, and the step that ends it returns
\* an error.  (QdrantStore.upsert raises ValueError before it writes,
\* qdrant_store.py:87-88; FaissStore.add is the backend that decides this.)
C13_MismatchedAddRejected ==
    [][\A s \in Stores :
         (MismatchedAdd(s) /\ fpc'[s] # fpc[s]) =>
             /\ disk'.index_faiss = disk.index_faiss
             /\ disk'.vectors = disk.vectors
             /\ disk'.meta_jsonl = disk.meta_jsonl
             /\ disk'.lines = disk.lines
             /\ fresult'[s].kind = "error"]_vars

\* instance s takes a step of a search call
SearchStep(s) ==
    \/ fpc[s] = "idle" /\ fpc'[s] = "search_read"
    \/ fpc[s] = "search_read" /\ fpc'[s] = "idle"

\* C17: search is read-only: no step of a search changes the index directory
\* (its existence, index.faiss, meta.jsonl, the RAG artifacts), whether or not
\* the video was ever ingested.
C17_SearchReadOnly ==
    [][\A s \in Stores : SearchStep(s) => disk' = disk]_vars

\* C18: while the video_id has never been ingested, every completed search is
\* answered NotFound (never with a hit list, not even an empty one) and every
\* RAG search request with 404, whatever requests came before.
C18_MissingIndexNotFound ==
    ~hIngested =>
        /\ \A s \in Stores : fresult[s].kind \in {"none", "not_found"}
        /\ ragResult \in {"none", "404"}

\* C20: (a) after completed add calls, each with as many records as vectors
\* and none overlapping another, record i of meta.jsonl describes vector i of
\* index.faiss; (b) no hit of a search, also of one that interleaves with such
\* adds, pairs the score of one vector with the record of another.
C20_PositionalJoin ==
    (~hMismatch /\ ~hOverlap) =>
        /\ (\A s \in Stores : ~InAdd(s)) =>
               /\ Len(disk.lines) = Len(disk.vectors)
               /\ \A i \in 1..Len(disk.vectors) : disk.lines[i] = disk.vectors[i]
        /\ \A s \in Stores :
               \A i \in 1..Len(fresult[s].hits) :
                   fresult[s].hits[i].meta = fresult[s].hits[i].score

----------------------------------------------------------------------------
(* Claims about QdrantStore point ids (SpecPointId)                         *)

\* the id the caller supplied: point_id if the payload has one (an empty
\* string counting as none), else chunk_id
CallerId(pl) ==
    IF pl.point_id \notin {PyNone, PyStr(<< >>)} THEN pl.point_id ELSE pl.chunk_id

\* C14: a supplied id that is an unsigned integer (0 included) or an
\* all-digit string (blanks around it aside) becomes that integer; a supplied
\* well-formed UUID string becomes that UUID's text; any other supplied value,
\* and no supplied id, gives the UUID derived from (video_id, start, end, i)
\* and from nothing else, so equal tuples give equal ids and different tuples
\* different ids.
C14_PointIdNormalized ==
    ipc = "out" =>
        LET raw == CallerId(payload)
            text == Strip(raw.s)
        IN  pid = IF raw.t = "int" /\ raw.v >= 0 THEN PyInt(raw.v)
                  ELSE IF raw.t = "str" /\ IsDigit(text) THEN PyInt(ParseInt(text))
                  ELSE IF raw.t = "str" /\ IsUuidText(text) THEN PyStr(<<"u">>)
                  ELSE Uuid5(<<payload.video_id, payload.start, payload.end, seq_i>>)

----------------------------------------------------------------------------
(* Claims about the backend choice and QdrantStore construction             *)
(* (SpecBackend)                                                            *)

\* C15: constructing a QdrantStore succeeds if the collection of its
\* dimension exists already, and if another constructor creates it between
\* this one's existence check and its create call: no construction ends with
\* the error of creating a collection that exists.
C15_ConstructionTolerant ==
    \A k \in Calls : bout[k] # "conflict"

\* C16: all ingest_video and search calls of a process use the same backend;
\* with QDRANT_URL set no call sends an operation to the local backend, and a
\* call whose request to the networked backend failed has ended with that
\* error, not with a result.
C16_OneBackendNoFallback ==
    /\ \A j, k \in Calls :
          (bused[j] # {} /\ bused[k] # {}) => bused[j] = bused[k]
    /\ \A k \in Calls :
          /\ bused[k] \subseteq {Backend(qdrant_url)}
          /\ hFailed[k] =>
                /\ bpc[k] = "done"
                /\ bout[k] \in {"unreachable", "conflict"}
                /\ "faiss" \notin bused[k]

\* with QDRANT_URL set, an ingest failed on the unreachable server and a
\* search of the same process was answered by the networked backend
C16_Witness ==
    /\ qdrant_url
    /\ \E j, k \in Calls :
          /\ bkind[j] = "ingest" /\ hFailed[j] /\ bout[j] = "unreachable"
          /\ bkind[k] = "search" /\ bout[k] = "ok" /\ bused[k] = {"qdrant"}

----------------------------------------------------------------------------
(* Claims about the lifetime of the cancellation flag (Spec)                *)

\* C19: the flag is cleared only by the entry of an ingest_video call; a
\* check that finds it set leaves it set and aborts its call as Cancelled, so
\* that every running call that reaches a check before the next entry is
\* aborted.
C19_FlagOutlivesObservers ==
    [][/\ (cancelFlag /\ ~cancelFlag') =>
             \E i \in Ingests : pc[i] = "idle" /\ pc'[i] # "idle"
       /\ \A i \in Ingests :
             (ChecksNow(i) /\ cancelFlag) =>
                 cancelFlag' /\ outcome'[i] = "cancelled"]_vars

====
